---- MODULE Spec2Model ----
(***************************************************************************)
(* State-machine model of VoiceSystem (src/voice_system.py): the scheduler *)
(* worker (_scheduler_loop), its control operations (start_scheduler,      *)
(* stop_scheduler), the radio player life cycle (start_radio, stop_radio), *)
(* the ducking fade (_fade_radio_volume) and play_audio.                   *)
(*                                                                         *)
(* Every thread of the program is a thread of the model: the API threads   *)
(* that call the control operations (Callers) and the worker threads the   *)
(* program creates (Workers).  A thread has a program counter pc[t], a     *)
(* stack of return labels for the methods it is inside, and the locals of  *)
(* those methods.  One action is one statement group of the source between *)
(* two points where another thread can observe or change shared state.     *)
(***************************************************************************)
EXTENDS Integers, Sequences, FiniteSets, TLC

\* ---------------------------------------------------------------- bounds
\* Thread objects start_scheduler may create in one behaviour.
MaxThreads == 2
\* Backend failures (a raising libvlc / pydub call) in one behaviour.
MaxFaults == 1
\* Consecutive stop_scheduler calls without a worker that are recorded.
MaxRun == 2
\* Handles that may exist unreleased before play() stops returning -1.
MaxHandles == 2
\* The registry holds at most this many lines.
MaxLines == 3

\* ------------------------------------------------------ program constants
DefaultMasterVolume == 100
DefaultRadioVolume == 50
DefaultDuckVolume == 10
DefaultInterval == 300
MinInterval == 1
EmptyWait == 30
BackoffWait == 15
StepsPerSecond == 20
DuckFadeMs == 500
RestoreFadeMs == 1000
ErrorRestoreFadeMs == 500

\* ---------------------------------------------------------------- threads
Workers == 1..MaxThreads
MainCaller == 101
Callers == {101, 102}
Threads == Workers \cup Callers
NoThread == 0

VARIABLES
    \* scheduler state (VoiceSystem.__init__)
    scheduler_thread,       \* _scheduler_thread: NoThread or a worker id
    stop_scheduler_event,   \* _stop_scheduler_event: is the flag set
    scheduler_running,      \* _scheduler_running
    \* radio state
    vlc_instance,           \* _vlc_instance is available
    radio_player,           \* "None" or "Player": self.radio_player
    player,                 \* the handle radio_player refers to
    unreleased,             \* handles created and not yet released
    \* configuration and registry
    config,
    lines,
    files,
    \* threads
    pc,
    stack,
    loc,
    result,                 \* what each caller's last API call returned
    faults,                 \* backend failures so far
    hist                    \* observations the properties refer to

schedVars == <<scheduler_thread, stop_scheduler_event, scheduler_running>>
radioVars == <<radio_player, player, unreleased>>
envVars == <<vlc_instance, config>>
regVars == <<lines, files>>
threadVars == <<pc, stack, loc>>
vars == <<scheduler_thread, stop_scheduler_event, scheduler_running,
          vlc_instance, radio_player, player, unreleased, config, lines,
          files, pc, stack, loc, result, faults, hist>>

\* ---------------------------------------------------------------- helpers
Min(a, b) == IF a < b THEN a ELSE b
Max(a, b) == IF a > b THEN a ELSE b

\* Thread.is_alive(): started and its run() has not ended.
is_alive(w) ==
    w \in Workers /\ pc[w] \notin {"unborn", "unstarted", "dead", "crashed", "aborted"}

\* Volumes are kept in hundredths: vol stands for the double vol / 100.
\* For these hundredths up to 2.00 the double product (vol / 100) * 100
\* falls just below the integer, and int() truncates it to vol - 1.
FloatShort == {29, 57, 58, 113, 114, 115, 116}

\* int(vol * 100)
IntOfProduct(vol) == IF vol \in FloatShort THEN vol - 1 ELSE vol

\* max(0, min(100, int(vol * 100)))
VlcVolume(vol) == Max(0, Min(100, IntOfProduct(vol)))

\* steps = max(1, int(duration * 20)), duration in milliseconds.
FadeSteps(ms) == Max(1, (ms * StepsPerSecond) \div 1000)

\* Python's round(): the nearest integer to n/d, ties to the even one (d > 0).
RoundHalfEven(n, d) ==
    LET q == n \div d
        r == n % d
    IN  IF 2 * r < d THEN q
        ELSE IF 2 * r > d THEN q + 1
        ELSE IF q % 2 = 0 THEN q ELSE q + 1

\* A ramp whose delta is the whole distance instead of one step of it.
FadeStepOvershoots(start, end, steps, i) == {start + i * (end - start)}

\* vol_to_set in iteration i (1..steps) of the ramp: int(round(current_vol)),
\* current_vol being the double sum start + delta + ... + delta.  Where the
\* exact sum lies halfway between two integers the double sum may lie on
\* either side of it, and either integer may result.
FadeStepVolume(start, end, steps, i) ==
    LET n == start * steps + i * (end - start)
    IN  IF 2 * (n % steps) = steps
        THEN {n \div steps, n \div steps + 1}
        ELSE {RoundHalfEven(n, steps)}

NoPlayer == [state |-> "NothingSpecial", volume |-> 0]

\* get_state() in [vlc.State.Playing, vlc.State.Buffering]
PlayingOrBuffering == radio_player = "Player" /\ player.state \in {"Playing", "Buffering"}

\* self.radio_player and self.radio_player.is_playing()
RadioIsPlaying == radio_player = "Player" /\ player.state = "Playing"

NoLocals == [radio_playing |-> FALSE, fstart |-> 0, fend |-> 0, fsteps |-> 0,
             fi |-> 0, line |-> 0, wait_time |-> 0, target |-> NoThread,
             rv |-> "none"]

\* Where an exception that leaves a method continues in its caller: the
\* label the method would have returned to names the call site.  The call
\* of start_radio at the head of _scheduler_loop is outside the try block:
\* an exception there ends the thread.
Handler(label) ==
    CASE label = "w_loop" -> "crashed"
      [] label = "w_sleep2" -> "w_except"
      [] label = "w_interval" -> "w_except"
      [] OTHER -> "c_raised"

Goto(t, label) ==
    /\ pc' = [pc EXCEPT ![t] = label]
    /\ UNCHANGED <<stack, loc>>

GotoL(t, label, locals) ==
    /\ pc' = [pc EXCEPT ![t] = label]
    /\ loc' = [loc EXCEPT ![t] = locals]
    /\ UNCHANGED stack

\* Thread t calls the method whose first statement is entry and that
\* returns to label ret.
Call(t, entry, ret, locals) ==
    /\ pc' = [pc EXCEPT ![t] = entry]
    /\ stack' = [stack EXCEPT ![t] = <<ret>> \o @]
    /\ loc' = [loc EXCEPT ![t] = locals]

\* The method thread t is in returns v to its call site.
Return(t, v) ==
    /\ pc' = [pc EXCEPT ![t] = Head(stack[t])]
    /\ stack' = [stack EXCEPT ![t] = Tail(stack[t])]
    /\ loc' = [loc EXCEPT ![t].rv = v]

\* An exception leaves the method thread t is in.
Raise(t) ==
    /\ pc' = [pc EXCEPT ![t] = Handler(Head(stack[t]))]
    /\ stack' = [stack EXCEPT ![t] = Tail(stack[t])]
    /\ loc' = [loc EXCEPT ![t].rv = "raised"]

\* release() of the handle in radio_player: one handle fewer is unreleased,
\* unless another thread has released this handle already.
AfterRelease == IF player.state = "Released" THEN unreleased ELSE unreleased - 1

\* The outcomes of a backend call: it works, or (within the budget) fails.
Outcomes == IF faults < MaxFaults THEN {"ok", "fault"} ELSE {"ok"}
Charge(o) == faults' = IF o = "ok" THEN faults ELSE faults + 1

\* ------------------------------------------------------------ start_radio
\* A start_radio that replaces whatever player it finds.
start_radio_check_always_new(t) ==
    /\ pc[t] = "sr_check"
    /\ UNCHANGED <<schedVars, envVars, regVars, result, hist, faults>>
    /\ IF ~vlc_instance
       THEN Return(t, "fail") /\ UNCHANGED radioVars
       ELSE /\ radio_player' = "None"
            /\ player' = NoPlayer
            /\ unreleased' = IF radio_player = "Player" THEN unreleased - 1 ELSE unreleased
            /\ Goto(t, "sr_new")

\* Lines 623-641: no VLC instance; an existing player is kept when it is
\* playing or buffering, and released otherwise (also when get_state raises).
start_radio_check(t) ==
    /\ pc[t] = "sr_check"
    /\ UNCHANGED <<schedVars, envVars, regVars, result, hist>>
    /\ IF ~vlc_instance
       THEN Return(t, "fail") /\ UNCHANGED <<radioVars, faults>>
       ELSE IF radio_player = "None"
       THEN Goto(t, "sr_new") /\ UNCHANGED <<radioVars, faults>>
       ELSE \E o \in Outcomes :
              /\ Charge(o)
              /\ IF o = "ok" /\ PlayingOrBuffering
                 THEN Return(t, "ok") /\ UNCHANGED radioVars
                 ELSE /\ radio_player' = "None"
                      /\ player' = NoPlayer
                      /\ unreleased' = AfterRelease
                      /\ Goto(t, "sr_new")

\* _get_stream_url() for the configured playlist (lines 476-492, 412-474):
\* a URL, '' when there is none, or an exception when the configured value
\* is not a path (Path(path_str) at line 418 is outside the try block).
StreamUrl == config.playlist

\* Lines 644-677: the stream URL, a new player at the configured radio
\* volume, play().  A failure inside the try block releases the player.
\* At most MaxHandles handles are followed.
start_radio_new(t) ==
    /\ pc[t] = "sr_new"
    /\ unreleased < MaxHandles
    /\ UNCHANGED <<schedVars, envVars, regVars, result, hist>>
    /\ IF StreamUrl = "bad"
       THEN Raise(t) /\ UNCHANGED <<radioVars, faults>>
       ELSE IF StreamUrl = "none"
       THEN Return(t, "fail") /\ UNCHANGED <<radioVars, faults>>
       ELSE \E o \in Outcomes :
              /\ Charge(o)
              /\ IF o = "ok"
                 THEN /\ radio_player' = "Player"
                      /\ player' = [state |-> "Opening",
                                     volume |-> VlcVolume(config.radio)]
                      /\ unreleased' = unreleased + 1
                      /\ Goto(t, "sr_sleep")
                 ELSE /\ radio_player' = "None"
                      /\ player' = NoPlayer
                      /\ UNCHANGED unreleased
                      /\ Return(t, "fail")

\* Lines 679-699: after the 2 s pause the state is read and success
\* returned; an exception there releases the player and returns failure.
start_radio_started(t) ==
    /\ pc[t] = "sr_sleep"
    /\ UNCHANGED <<schedVars, envVars, regVars, result, hist>>
    /\ IF radio_player = "None"
       THEN Return(t, "fail") /\ UNCHANGED <<radioVars, faults>>
       ELSE \E o \in Outcomes :
              /\ Charge(o)
              /\ IF o = "ok"
                 THEN Return(t, "ok") /\ UNCHANGED radioVars
                 ELSE /\ radio_player' = "None"
                      /\ player' = NoPlayer
                      /\ unreleased' = AfterRelease
                      /\ Return(t, "fail")

\* ------------------------------------------------------------- stop_radio
\* Lines 704-718: nothing to stop; otherwise stop() a playing player.  An
\* exception clears radio_player without releasing it and returns failure.
stop_radio_stop(t) ==
    /\ pc[t] = "xr_stop"
    /\ UNCHANGED <<schedVars, envVars, regVars, result, hist>>
    /\ IF radio_player = "None"
       THEN Return(t, "ok") /\ UNCHANGED <<radioVars, faults>>
       ELSE \E o \in Outcomes :
              /\ Charge(o)
              /\ IF o = "ok"
                 THEN /\ player' = [player EXCEPT !.state =
                                       IF @ = "Playing" THEN "Stopped" ELSE @]
                      /\ UNCHANGED <<radio_player, unreleased>>
                      /\ Goto(t, "xr_release")
                 ELSE /\ radio_player' = "None"
                      /\ player' = NoPlayer
                      /\ UNCHANGED unreleased
                      /\ Return(t, "fail")

\* Line 720: release().  The handle stays in radio_player, released, until
\* line 721 runs; an exception clears radio_player (lines 725-730).
stop_radio_release(t) ==
    /\ pc[t] = "xr_release"
    /\ UNCHANGED <<schedVars, envVars, regVars, result, hist>>
    /\ IF radio_player = "None"
       THEN Return(t, "fail") /\ UNCHANGED <<radioVars, faults>>
       ELSE \E o \in Outcomes :
              /\ Charge(o)
              /\ IF o = "ok"
                 THEN /\ player' = [player EXCEPT !.state = "Released"]
                      /\ unreleased' = AfterRelease
                      /\ UNCHANGED radio_player
                      /\ Goto(t, "xr_clear")
                 ELSE /\ radio_player' = "None"
                      /\ player' = NoPlayer
                      /\ UNCHANGED unreleased
                      /\ Return(t, "fail")

\* Lines 721-723: radio_player = None, and success.
stop_radio_clear(t) ==
    /\ pc[t] = "xr_clear"
    /\ UNCHANGED <<schedVars, envVars, regVars, result, hist, faults>>
    /\ radio_player' = "None"
    /\ player' = NoPlayer
    /\ UNCHANGED unreleased
    /\ Return(t, "ok")

\* ----------------------------------------------------- _fade_radio_volume
\* The locals a finished fade leaves behind.
FadeDone(l) == [l EXCEPT !.fstart = 0, !.fend = 0, !.fsteps = 0, !.fi = 0]

\* The caller's locals on entry: start_vlc, end_vlc and steps (510-514).
FadeArgs(l, start_vol, end_vol, ms) ==
    [l EXCEPT !.fstart = VlcVolume(start_vol), !.fend = VlcVolume(end_vol),
              !.fsteps = FadeSteps(ms), !.fi = 0]

\* A fade that runs on any handle, whatever its state.
FadeRunsAlways(o) == vlc_instance /\ radio_player = "Player"

\* Lines 496-508: does the fade run at all?  Not without a player or a VLC
\* instance, not when get_state raises, not unless playing or buffering.
FadeRuns(o) == vlc_instance /\ o = "ok" /\ PlayingOrBuffering

fade_check(t) ==
    /\ pc[t] = "fd_check"
    /\ UNCHANGED <<schedVars, envVars, regVars, radioVars, result, hist>>
    /\ \E o \in (IF radio_player = "Player" /\ vlc_instance THEN Outcomes ELSE {"ok"}) :
         /\ Charge(o)
         /\ IF FadeRuns(o)
            THEN Goto(t, "fd_step")
            ELSE /\ pc' = [pc EXCEPT ![t] = Head(stack[t])]
                 /\ stack' = [stack EXCEPT ![t] = Tail(stack[t])]
                 /\ loc' = [loc EXCEPT ![t] = FadeDone(@)]

\* Lines 520-528: one iteration of the ramp.  Without a player the call
\* raises AttributeError, which line 532 catches: the fade ends.
fade_step(t) ==
    /\ pc[t] = "fd_step"
    /\ UNCHANGED <<schedVars, envVars, regVars, result, hist, faults>>
    /\ IF radio_player = "None"
       THEN /\ pc' = [pc EXCEPT ![t] = Head(stack[t])]
            /\ stack' = [stack EXCEPT ![t] = Tail(stack[t])]
            /\ loc' = [loc EXCEPT ![t] = FadeDone(@)]
            /\ UNCHANGED radioVars
       ELSE /\ \E v \in FadeStepVolume(loc[t].fstart, loc[t].fend,
                                         loc[t].fsteps, loc[t].fi + 1) :
                 player' = [player EXCEPT !.volume = v]
            /\ UNCHANGED <<radio_player, unreleased>>
            /\ pc' = [pc EXCEPT ![t] =
                        IF loc[t].fi + 1 = loc[t].fsteps THEN "fd_pin" ELSE "fd_step"]
            /\ loc' = [loc EXCEPT ![t].fi = @ + 1]
            /\ UNCHANGED stack

\* Line 530: the final volume is set exactly.
fade_pin(t) ==
    /\ pc[t] = "fd_pin"
    /\ UNCHANGED <<schedVars, envVars, regVars, result, hist, faults>>
    /\ IF radio_player = "None"
       THEN UNCHANGED radioVars
       ELSE /\ player' = [player EXCEPT !.volume = loc[t].fend]
            /\ UNCHANGED <<radio_player, unreleased>>
    /\ pc' = [pc EXCEPT ![t] = Head(stack[t])]
    /\ stack' = [stack EXCEPT ![t] = Tail(stack[t])]
    /\ loc' = [loc EXCEPT ![t] = FadeDone(@)]

\* ------------------------------------------------------------- play_audio
\* A play_audio without the test of line 736.
play_audio_check_no_test(t) ==
    /\ pc[t] = "pa_check"
    /\ UNCHANGED <<schedVars, envVars, regVars, radioVars, result, hist, faults>>
    /\ Goto(t, "pa_load")

\* A play_audio that raises FileNotFoundError for a missing file.
play_audio_check_raising(t) ==
    /\ pc[t] = "pa_check"
    /\ UNCHANGED <<schedVars, envVars, regVars, radioVars, result, hist, faults>>
    /\ IF loc[t].line \in files
       THEN Goto(t, "pa_load")
       ELSE Raise(t)

\* Line 736: the audio file must exist.
play_audio_check(t) ==
    /\ pc[t] = "pa_check"
    /\ UNCHANGED <<schedVars, envVars, regVars, radioVars, result, hist, faults>>
    /\ IF loc[t].line \in files
       THEN Goto(t, "pa_load")
       ELSE Return(t, "fail")

\* Lines 741-753: the file is loaded; one that vanished or cannot be
\* decoded returns failure at once.
play_audio_load(t) ==
    /\ pc[t] = "pa_load"
    /\ UNCHANGED <<schedVars, envVars, regVars, radioVars, result, hist>>
    /\ IF loc[t].line \notin files
       THEN Return(t, "fail") /\ UNCHANGED faults
       ELSE \E o \in Outcomes :
              /\ Charge(o)
              /\ IF o = "ok" THEN Goto(t, "pa_effects") ELSE Return(t, "fail")

\* The effect stages that fail open: an exception in one of them is caught
\* and the buffer it was given goes on to playback.  degrade_audio catches every exception and returns the segment it was
\* given (lines 222-227); compress_dynamic_range and apply_gain are called
\* with no handler of their own (lines 761-777).
FailOpen == {"degrade"}

\* Lines 755-777: distortion, compression and gain.  A stage that fails
\* open is passed over; an exception of another stage goes to the handler
\* at line 801.
play_audio_effects(t) ==
    /\ pc[t] = "pa_effects"
    /\ UNCHANGED <<schedVars, envVars, regVars, radioVars, result, hist>>
    /\ \E o \in {"ok"} \cup (IF faults < MaxFaults
                             THEN {"degrade", "compress", "gain"} ELSE {}) :
         /\ Charge(o)
         /\ IF o = "ok" \/ o \in FailOpen
            THEN Goto(t, "pa_duck")
            ELSE Goto(t, "pa_exc")

\* A play_audio that notes the playing radio but does not fade it down.
play_audio_duck_no_fade(t) ==
    /\ pc[t] = "pa_duck"
    /\ UNCHANGED <<schedVars, envVars, regVars, radioVars, result, hist, faults>>
    /\ GotoL(t, "pa_play", [loc[t] EXCEPT !.radio_playing = RadioIsPlaying])

\* Lines 779-785: radio_playing is read once; a playing radio is faded from
\* the radio volume down to the ducking volume over 0.5 s.
play_audio_duck(t) ==
    /\ pc[t] = "pa_duck"
    /\ UNCHANGED <<schedVars, envVars, regVars, radioVars, result, hist, faults>>
    /\ IF RadioIsPlaying
       THEN Call(t, "fd_check", "pa_play",
                 FadeArgs([loc[t] EXCEPT !.radio_playing = TRUE],
                          config.radio, config.ducking, DuckFadeMs))
       ELSE GotoL(t, "pa_play", [loc[t] EXCEPT !.radio_playing = FALSE])

\* Lines 787-797: the blocking play(audio) ends; if the radio was playing
\* when the line started, it is faded back up over 1.0 s.
play_audio_play(t) ==
    /\ pc[t] = "pa_play"
    /\ UNCHANGED <<schedVars, envVars, regVars, radioVars, result, hist>>
    /\ \E o \in Outcomes :
         /\ Charge(o)
         /\ IF o # "ok" THEN GotoL(t, "pa_exc", [loc[t] EXCEPT !.radio_playing = FALSE])
            ELSE IF loc[t].radio_playing
            THEN Call(t, "fd_check", "pa_true",
                      FadeArgs([loc[t] EXCEPT !.radio_playing = FALSE],
                               config.ducking, config.radio, RestoreFadeMs))
            ELSE Return(t, "ok")

\* Line 799.
play_audio_return_true(t) ==
    /\ pc[t] = "pa_true"
    /\ UNCHANGED <<schedVars, envVars, regVars, radioVars, result, hist, faults>>
    /\ Return(t, "ok")

\* Lines 801-809: the handler restores the volume over 0.5 s if the radio
\* is playing now.
play_audio_except(t) ==
    /\ pc[t] = "pa_exc"
    /\ UNCHANGED <<schedVars, envVars, regVars, radioVars, result, hist, faults>>
    /\ IF RadioIsPlaying
       THEN Call(t, "fd_check", "pa_false",
                 FadeArgs(loc[t], config.ducking, config.radio, ErrorRestoreFadeMs))
       ELSE Return(t, "fail")

\* Line 810.
play_audio_return_false(t) ==
    /\ pc[t] = "pa_false"
    /\ UNCHANGED <<schedVars, envVars, regVars, radioVars, result, hist, faults>>
    /\ Return(t, "fail")

\* -------------------------------------------------------- _scheduler_loop
\* A snapshot that, as in src/main.py line 615, does not look for the file.
ActiveLinesByFlag == {i \in 1..Len(lines) : lines[i].active}

\* A snapshot that takes every line with an audio file, active or not.
LinesWithFile ==
    {i \in 1..Len(lines) : lines[i].filename # 0 /\ lines[i].filename \in files}

\* Lines 826-831: the lines that are active and whose audio file exists.
ActiveLines ==
    {i \in 1..Len(lines) :
        lines[i].active /\ lines[i].filename # 0 /\ lines[i].filename \in files}

\* Observations: the results of the stop_scheduler calls made in a row with
\* no worker alive and no other change of the scheduler state in between,
\* the scheduler state after the first of them, and the live workers that
\* stop_scheduler has signalled; and the callers that are inside a
\* start_scheduler call made straight after a stop_scheduler call of theirs
\* that returned success.
NoHist == [quiet_stops |-> <<>>, first |-> <<>>, signalled |-> {}, restart |-> {}]

EndRun == [hist EXCEPT !.quiet_stops = <<>>, !.first = <<>>]

\* The start_scheduler call of caller c returns.
EndStart(h, c) == [h EXCEPT !.restart = @ \ {c}]

\* Line 815.
scheduler_loop_begin(w) ==
    /\ pc[w] = "w_begin"
    /\ scheduler_running' = TRUE
    /\ Goto(w, "w_clear")
    /\ hist' = EndRun
    /\ UNCHANGED <<scheduler_thread, stop_scheduler_event, envVars, regVars,
                   radioVars, result, faults>>

\* Lines 816-819: the stop event is cleared and start_radio called.
scheduler_loop_clear(w) ==
    /\ pc[w] = "w_clear"
    /\ stop_scheduler_event' = FALSE
    /\ Call(w, "sr_check", "w_loop", loc[w])
    /\ hist' = EndRun
    /\ UNCHANGED <<scheduler_thread, scheduler_running, envVars, regVars,
                   radioVars, result, faults>>

\* Line 823: while not self._stop_scheduler_event.is_set().
scheduler_loop_test(w) ==
    /\ pc[w] = "w_loop"
    /\ Goto(w, IF stop_scheduler_event THEN "w_exit" ELSE "w_snap")
    /\ UNCHANGED <<schedVars, envVars, regVars, radioVars, result, faults, hist>>

\* Lines 853: the radio is restarted unless it is playing or buffering; a
\* get_state that raises counts as vlc.State.Error (846-851).
RadioNeedsRestart(o) == ~(o = "ok" /\ PlayingOrBuffering)

\* Lines 826-861: the snapshot; with no active line a 30 s wait; otherwise
\* one line is chosen, the radio restarted if it is not playing, and the
\* line played.
scheduler_loop_select(w) ==
    /\ pc[w] = "w_snap"
    /\ UNCHANGED <<schedVars, envVars, regVars, radioVars, result, hist>>
    /\ IF ActiveLines = {}
       THEN /\ GotoL(w, "w_wait", [loc[w] EXCEPT !.wait_time = EmptyWait, !.line = 0])
            /\ UNCHANGED faults
       ELSE \E i \in ActiveLines :
            \E o \in (IF vlc_instance /\ radio_player = "Player" THEN Outcomes ELSE {"ok"}) :
              /\ Charge(o)
              /\ IF vlc_instance /\ RadioNeedsRestart(o)
                 THEN Call(w, "sr_check", "w_sleep2",
                           [loc[w] EXCEPT !.line = lines[i].filename])
                 ELSE Call(w, "pa_check", "w_interval",
                           [loc[w] EXCEPT !.line = lines[i].filename])

\* Lines 857-861: after the 2 s pause the selected line is played.
scheduler_loop_play(w) ==
    /\ pc[w] = "w_sleep2"
    /\ Call(w, "pa_check", "w_interval", loc[w])
    /\ UNCHANGED <<schedVars, envVars, regVars, radioVars, result, faults, hist>>

\* A loop that deactivates the line whose playback failed (the call left
\* commented out at line 864).
scheduler_loop_interval_deactivating(w) ==
    /\ pc[w] = "w_interval"
    /\ GotoL(w, "w_wait", [loc[w] EXCEPT !.wait_time =
                                Max(MinInterval, config.interval), !.line = 0])
    /\ lines' = [i \in 1..Len(lines) |->
                   IF loc[w].rv = "fail" /\ lines[i].filename = loc[w].line
                   THEN [lines[i] EXCEPT !.active = FALSE] ELSE lines[i]]
    /\ UNCHANGED <<schedVars, envVars, files, radioVars, result, faults, hist>>

\* A loop that goes straight from a playback to its next iteration.
scheduler_loop_interval_no_wait(w) ==
    /\ pc[w] = "w_interval"
    /\ GotoL(w, "w_loop", [loc[w] EXCEPT !.line = 0])
    /\ UNCHANGED <<schedVars, envVars, regVars, radioVars, result, faults, hist>>

\* Lines 862-869: wait_time = max(1.0, float(interval)); a value float()
\* rejects raises into the handler at line 881.
scheduler_loop_interval(w) ==
    /\ pc[w] = "w_interval"
    /\ IF config.interval_ok
       THEN GotoL(w, "w_wait", [loc[w] EXCEPT !.wait_time =
                                   Max(MinInterval, config.interval), !.line = 0])
       ELSE GotoL(w, "w_except", [loc[w] EXCEPT !.line = 0])
    /\ UNCHANGED <<schedVars, envVars, regVars, radioVars, result, faults, hist>>

\* Lines 875-878 and 885-886: Event.wait(wait_time) returns the flag: set,
\* the loop is left; clear after the timeout, the loop goes on.
scheduler_loop_wait(w) ==
    /\ pc[w] = "w_wait"
    /\ GotoL(w, IF stop_scheduler_event THEN "w_exit" ELSE "w_loop",
             [loc[w] EXCEPT !.wait_time = 0])
    /\ UNCHANGED <<schedVars, envVars, regVars, radioVars, result, faults, hist>>

\* Lines 881-885: the handler of the loop body waits 15 s on the event.
scheduler_loop_except(w) ==
    /\ pc[w] = "w_except"
    /\ GotoL(w, "w_wait", [loc[w] EXCEPT !.wait_time = BackoffWait, !.line = 0])
    /\ UNCHANGED <<schedVars, envVars, regVars, radioVars, result, faults, hist>>

\* A worker that leaves its loop without calling stop_radio.
scheduler_loop_exit_no_stop_radio(w) ==
    /\ pc[w] = "w_exit"
    /\ Goto(w, "w_exit_flag")
    /\ UNCHANGED <<schedVars, envVars, regVars, radioVars, result, faults, hist>>

\* Lines 888-892: the loop is left; with a VLC instance stop_radio is called.
scheduler_loop_exit(w) ==
    /\ pc[w] = "w_exit"
    /\ IF vlc_instance
       THEN Call(w, "xr_stop", "w_exit_flag", loc[w])
       ELSE Goto(w, "w_exit_flag")
    /\ UNCHANGED <<schedVars, envVars, regVars, radioVars, result, faults, hist>>

\* Lines 893-894: the flag is cleared and the thread ends.
scheduler_loop_finish(w) ==
    /\ pc[w] = "w_exit_flag"
    /\ scheduler_running' = FALSE
    /\ GotoL(w, "dead", NoLocals)
    /\ hist' = [EndRun EXCEPT !.signalled = @ \ {w}]
    /\ UNCHANGED <<scheduler_thread, stop_scheduler_event, envVars, regVars,
                   radioVars, result, faults>>

\* -------------------------------------------------------- start_scheduler
\* A start_scheduler that trusted the running flag instead of the thread.
AlreadyRunningByFlag == scheduler_running

\* Line 899: a thread object exists and its thread is alive.
AlreadyRunning == scheduler_thread # NoThread /\ is_alive(scheduler_thread)

\* The next thread object threading.Thread() creates.
NewThread == CHOOSE w \in Workers : pc[w] = "unborn" /\ \A v \in Workers : pc[v] = "unborn" => w <= v

\* Lines 899-901: a caller enters start_scheduler; with a live worker it
\* returns failure at once.
start_scheduler(c) ==
    /\ pc[c] = "idle"
    /\ AlreadyRunning \/ \E w \in Workers : pc[w] = "unborn"
    /\ IF AlreadyRunning
       THEN /\ result' = [result EXCEPT ![c] = [op |-> "start_scheduler", value |-> "AlreadyRunning"]]
            /\ UNCHANGED threadVars
       ELSE /\ result' = [result EXCEPT ![c] = [op |-> "start_scheduler", value |-> "pending"]]
            /\ Goto(c, "ss_spawn")
    /\ hist' = [EndRun EXCEPT !.restart =
                  IF ~AlreadyRunning
                     /\ result[c] = [op |-> "stop_scheduler", value |-> "ok"]
                  THEN @ \cup {c} ELSE @ \ {c}]
    /\ UNCHANGED <<schedVars, envVars, regVars, radioVars, faults>>

\* Lines 903-909: the event is cleared, the thread object created and
\* started; Thread.start() may raise RuntimeError.
start_scheduler_spawn(c) ==
    /\ pc[c] = "ss_spawn"
    /\ \E w \in Workers : pc[w] = "unborn"
    /\ stop_scheduler_event' = FALSE
    /\ scheduler_thread' = NewThread
    /\ \E o \in Outcomes :
         /\ Charge(o)
         /\ IF o = "ok"
            THEN /\ pc' = [pc EXCEPT ![NewThread] = "w_begin", ![c] = "ss_flag"]
                 /\ UNCHANGED result
                 /\ hist' = EndRun
            ELSE /\ pc' = [pc EXCEPT ![NewThread] = "unstarted", ![c] = "idle"]
                 /\ result' = [result EXCEPT ![c].value = "ThreadStartFailed"]
                 /\ hist' = EndStart(EndRun, c)
    /\ UNCHANGED <<scheduler_running, envVars, regVars, radioVars, stack, loc>>

\* Lines 911-917: after 0.5 s the running flag decides the result.
start_scheduler_flag(c) ==
    /\ pc[c] = "ss_flag"
    /\ IF scheduler_running
       THEN /\ result' = [result EXCEPT ![c].value = "ok"]
            /\ Goto(c, "idle")
            /\ hist' = EndStart(hist, c)
       ELSE /\ UNCHANGED <<result, hist>>
            /\ Goto(c, "ss_join")
    /\ UNCHANGED <<schedVars, envVars, regVars, radioVars, faults>>

\* Lines 919-920: join(timeout=1.0) ends, by the thread's end or by the
\* timeout, and failure is returned.  _scheduler_thread is read again: None
\* (a concurrent stop_scheduler reached line 950) raises AttributeError.
start_scheduler_join(c) ==
    /\ pc[c] = "ss_join"
    /\ result' = [result EXCEPT ![c].value =
                    IF scheduler_thread = NoThread THEN "raised" ELSE "NotStarted"]
    /\ Goto(c, "idle")
    /\ hist' = EndStart(hist, c)
    /\ UNCHANGED <<schedVars, envVars, regVars, radioVars, faults>>

\* --------------------------------------------------------- stop_scheduler
\* A stop_scheduler that reports a stop without a worker as a failure.
NotRunningIsFailure == "fail"

\* Line 928: what stop_scheduler returns when no worker is alive.
NotRunningResult == "ok"

\* Lines 925-940: with no live worker the flag is cleared and success
\* returned; otherwise the event is set and the caller joins the thread.
stop_scheduler(c) ==
    /\ pc[c] = "idle"
    /\ IF ~AlreadyRunning
       THEN /\ scheduler_running' = FALSE
            /\ result' = [result EXCEPT ![c] = [op |-> "stop_scheduler", value |-> NotRunningResult]]
            /\ hist' = IF Len(hist.quiet_stops) >= MaxRun THEN hist
                        ELSE [hist EXCEPT
                                !.quiet_stops = Append(@, NotRunningResult),
                                !.first = IF hist.quiet_stops = <<>>
                                          THEN <<scheduler_thread, FALSE, stop_scheduler_event>>
                                          ELSE @]
            /\ UNCHANGED <<scheduler_thread, stop_scheduler_event, threadVars>>
       ELSE /\ stop_scheduler_event' = TRUE
            /\ result' = [result EXCEPT ![c] = [op |-> "stop_scheduler", value |-> "pending"]]
            /\ GotoL(c, "st_join", [loc[c] EXCEPT !.target = scheduler_thread])
            /\ hist' = [EndRun EXCEPT !.signalled = @ \cup {scheduler_thread}]
            /\ UNCHANGED <<scheduler_thread, scheduler_running>>
    /\ UNCHANGED <<envVars, regVars, radioVars, faults>>

\* Lines 940-951: join(timeout=10) ends, by the thread's end or by the
\* timeout.  _scheduler_thread is read again: None raises AttributeError;
\* a live thread is reported, with the flag forced to False; a dead one is
\* forgotten.
stop_scheduler_join(c) ==
    /\ pc[c] = "st_join"
    /\ GotoL(c, "idle", [loc[c] EXCEPT !.target = NoThread])
    /\ IF scheduler_thread = NoThread
       THEN /\ result' = [result EXCEPT ![c].value = "raised"]
            /\ UNCHANGED schedVars
       ELSE IF is_alive(scheduler_thread)
       THEN /\ result' = [result EXCEPT ![c].value = "Timeout"]
            /\ scheduler_running' = FALSE
            /\ UNCHANGED <<scheduler_thread, stop_scheduler_event>>
       ELSE /\ result' = [result EXCEPT ![c].value = "ok"]
            /\ scheduler_running' = FALSE
            /\ scheduler_thread' = NoThread
            /\ UNCHANGED stop_scheduler_event
    /\ hist' = EndRun
    /\ UNCHANGED <<envVars, regVars, radioVars, faults>>

\* ------------------------------------------------------- toggle_all_lines
\* Lines 1083-1094: every line gets the given active state.
toggle_all_lines(c, new_state) ==
    /\ pc[c] = "idle"
    /\ lines' = [i \in 1..Len(lines) |-> [lines[i] EXCEPT !.active = new_state]]
    /\ result' = [result EXCEPT ![c] =
                    [op |-> "toggle_all_lines",
                     value |-> Cardinality({i \in 1..Len(lines) :
                                              lines[i].active # new_state})]]
    /\ hist' = EndRun
    /\ UNCHANGED <<schedVars, envVars, files, radioVars, threadVars, faults>>

\* ------------------------------------------------------------ the backend
\* The states libvlc moves a started player through on its own.
NextStates(st) ==
    CASE st = "Opening" -> {"Buffering", "Playing", "Error"}
      [] st = "Buffering" -> {"Playing"}
      [] st = "Playing" -> {"Buffering", "Ended", "Error"}
      [] OTHER -> {}

vlc_state_change ==
    /\ radio_player = "Player"
    /\ \E st \in NextStates(player.state) : player' = [player EXCEPT !.state = st]
    /\ UNCHANGED <<schedVars, envVars, regVars, radio_player, unreleased,
                   threadVars, result, faults, hist>>

\* The next statement of thread t calls get_state, is_playing, stop,
\* audio_set_volume or release on the handle in radio_player.
HandleLabels == {"sr_check", "sr_sleep", "xr_stop", "xr_release", "fd_check",
                 "fd_step", "fd_pin", "pa_duck", "pa_exc", "us_apply", "us_set"}

UsesHandle(t) ==
    /\ radio_player = "Player"
    /\ \/ pc[t] \in HandleLabels
       \/ pc[t] = "w_snap" /\ ActiveLines # {}

\* A call on a handle that release() has freed has no defined outcome: it
\* may behave as on a stopped player or raise (the steps of the methods),
\* or end the process, as here.
segfault ==
    /\ \E t \in Threads : UsesHandle(t) /\ player.state = "Released"
    /\ pc' = [t \in Threads |-> "aborted"]
    /\ stack' = [t \in Threads |-> <<>>]
    /\ UNCHANGED <<schedVars, envVars, regVars, radioVars, loc, result, hist, faults>>

\* ------------------------------------------------------------------ Init
\* The configuration and registry the constructor loads (lines 233-251):
\* the defaults, and one deviation from them at a time.
Line(id, active) == [id |-> id, text |-> id, filename |-> id, active |-> active]

DEFAULT_CONFIG == [master |-> DefaultMasterVolume, radio |-> DefaultRadioVolume, ducking |-> DefaultDuckVolume,
                   interval |-> DefaultInterval, interval_ok |-> TRUE,
                   playlist |-> "none"]

\* config.yaml names a playlist file with a stream URL in it.
PlaylistConfig == [DEFAULT_CONFIG EXCEPT !.playlist = "ok"]

Setups ==
    {[vlc |-> TRUE, config |-> PlaylistConfig, lines |-> <<>>, files |-> {}],
     [vlc |-> TRUE, config |-> PlaylistConfig, lines |-> <<Line(1, TRUE)>>, files |-> {1}],
     [vlc |-> TRUE, config |-> PlaylistConfig, lines |-> <<Line(1, TRUE)>>, files |-> {}],
     [vlc |-> FALSE, config |-> PlaylistConfig, lines |-> <<Line(1, TRUE)>>, files |-> {1}],
     [vlc |-> TRUE, config |-> DEFAULT_CONFIG,
      lines |-> <<Line(1, TRUE)>>, files |-> {1}],
     [vlc |-> TRUE, config |-> [PlaylistConfig EXCEPT !.playlist = "bad"],
      lines |-> <<Line(1, TRUE)>>, files |-> {1}],
     [vlc |-> TRUE, config |-> [PlaylistConfig EXCEPT !.interval_ok = FALSE],
      lines |-> <<Line(1, TRUE)>>, files |-> {1}]}

Init ==
    /\ scheduler_thread = NoThread
    /\ stop_scheduler_event = FALSE
    /\ scheduler_running = FALSE
    /\ radio_player = "None"
    /\ player = NoPlayer
    /\ unreleased = 0
    /\ \E s \in Setups :
         /\ vlc_instance = s.vlc
         /\ config = s.config
         /\ lines = s.lines
         /\ files = s.files
    /\ pc = [t \in Threads |-> IF t \in Workers THEN "unborn" ELSE "idle"]
    /\ stack = [t \in Threads |-> <<>>]
    /\ loc = [t \in Threads |-> NoLocals]
    /\ result = [c \in Callers |-> [op |-> "none", value |-> "none"]]
    /\ faults = 0
    /\ hist = NoHist

\* ------------------------------------------------------------------ Next
\* A step of a thread inside one of the methods.
MethodStep(t) ==
    \/ start_radio_check(t)
    \/ start_radio_new(t)
    \/ start_radio_started(t)
    \/ stop_radio_stop(t)
    \/ stop_radio_release(t)
    \/ stop_radio_clear(t)
    \/ fade_check(t)
    \/ fade_step(t)
    \/ fade_pin(t)
    \/ play_audio_check(t)
    \/ play_audio_load(t)
    \/ play_audio_effects(t)
    \/ play_audio_duck(t)
    \/ play_audio_play(t)
    \/ play_audio_return_true(t)
    \/ play_audio_except(t)
    \/ play_audio_return_false(t)

WorkerStep(w) ==
    \/ scheduler_loop_begin(w)
    \/ scheduler_loop_clear(w)
    \/ scheduler_loop_test(w)
    \/ scheduler_loop_select(w)
    \/ scheduler_loop_play(w)
    \/ scheduler_loop_interval(w)
    \/ scheduler_loop_wait(w)
    \/ scheduler_loop_except(w)
    \/ scheduler_loop_exit(w)
    \/ scheduler_loop_finish(w)
    \/ MethodStep(w)

ControlStep(c) ==
    \/ start_scheduler(c)
    \/ start_scheduler_spawn(c)
    \/ start_scheduler_flag(c)
    \/ start_scheduler_join(c)
    \/ stop_scheduler(c)
    \/ stop_scheduler_join(c)

CallerStep(c) ==
    \/ ControlStep(c)
    \/ \E b \in BOOLEAN : toggle_all_lines(c, b)

\* One control thread drives the system (the console menu, a serial client).
Next ==
    \/ CallerStep(MainCaller)
    \/ \E w \in Workers : WorkerStep(w)
    \/ vlc_state_change

Spec == Init /\ [][Next]_vars

\* Two API threads call start_scheduler and stop_scheduler concurrently, on
\* a system without a VLC instance (audio only): start_radio returns at
\* line 626, no player exists, and the worker steps below are the only ones
\* ever enabled.
InitConc ==
    /\ Init
    /\ ~vlc_instance

AudioOnlyStep(w) ==
    \/ scheduler_loop_begin(w)
    \/ scheduler_loop_clear(w)
    \/ scheduler_loop_test(w)
    \/ scheduler_loop_select(w)
    \/ scheduler_loop_interval(w)
    \/ scheduler_loop_wait(w)
    \/ scheduler_loop_exit(w)
    \/ scheduler_loop_finish(w)
    \/ start_radio_check(w)
    \/ play_audio_check(w)
    \/ play_audio_load(w)
    \/ play_audio_effects(w)
    \/ play_audio_duck(w)
    \/ play_audio_play(w)
    \/ play_audio_except(w)

NextConc ==
    \/ \E c \in Callers : ControlStep(c)
    \/ \E w \in Workers : AudioOnlyStep(w)

SpecConc == InitConc /\ [][NextConc]_vars

\* ------------------------------------------------ direct calls of the API
\* The radio state a call found.
Pre == [radio_player |-> radio_player, player |-> player, unreleased |-> unreleased]

\* Thread c enters a public method; the observation of the call is opened.
ApiCall(c, op, arg) ==
    result' = [result EXCEPT ![c] =
                 [op |-> op, arg |-> arg, value |-> "pending", pre |-> Pre]]

\* Audio file names a caller may pass to play_audio.
AudioNames == {1, 2}

\* Line 621.
call_start_radio(c) ==
    /\ pc[c] = "idle"
    /\ Call(c, "sr_check", "c_ret", NoLocals)
    /\ ApiCall(c, "start_radio", 0)
    /\ UNCHANGED <<schedVars, envVars, regVars, radioVars, faults, hist>>

\* Line 702.
call_stop_radio(c) ==
    /\ pc[c] = "idle"
    /\ Call(c, "xr_stop", "c_ret", NoLocals)
    /\ ApiCall(c, "stop_radio", 0)
    /\ UNCHANGED <<schedVars, envVars, regVars, radioVars, faults, hist>>

\* Line 733.
call_play_audio(c, f) ==
    /\ pc[c] = "idle"
    /\ Call(c, "pa_check", "c_ret", [NoLocals EXCEPT !.line = f])
    /\ ApiCall(c, "play_audio", f)
    /\ UNCHANGED <<schedVars, envVars, regVars, radioVars, faults, hist>>

\* Line 494: _fade_radio_volume(radio volume, ducking volume, 0.5).
call_fade(c) ==
    /\ pc[c] = "idle"
    /\ Call(c, "fd_check", "c_ret",
            FadeArgs(NoLocals, config.radio, config.ducking, DuckFadeMs))
    /\ ApiCall(c, "_fade_radio_volume", 0)
    /\ UNCHANGED <<schedVars, envVars, regVars, radioVars, faults, hist>>

\* The method returns to its caller, or an exception leaves it.
api_return(c) ==
    /\ pc[c] \in {"c_ret", "c_raised"}
    /\ result' = [result EXCEPT ![c].value =
                    IF pc[c] = "c_raised" THEN "raised" ELSE loc[c].rv]
    /\ GotoL(c, "idle", NoLocals)
    /\ UNCHANGED <<schedVars, envVars, regVars, radioVars, faults, hist>>

\* -------------------------------------------------------- update_settings
\* Radio volumes a caller may pass to update_settings, in hundredths: a
\* valid one and one above the range of models.VolumeSettings.
SettingsVolumes == {80, 150}

\* Lines 1164-1196: the merged configuration is validated (radio volume in
\* 0.0..1.0, src/models.py line 74); a valid one replaces the configuration
\* and the radio volume the fades and start_radio use.
update_settings(c, v) ==
    /\ pc[c] = "idle"
    /\ ApiCall(c, "update_settings", v)
    /\ UNCHANGED <<schedVars, vlc_instance, regVars, radioVars, faults, hist>>
    /\ IF v \in 0..100
       THEN /\ config' = [config EXCEPT !.radio = v]
            /\ Call(c, "us_apply", "c_ret", NoLocals)
       ELSE /\ UNCHANGED config
            /\ GotoL(c, "c_ret", [NoLocals EXCEPT !.rv = "fail"])

\* Line 1199: is the radio playing?  If not, the configuration is saved and
\* success returned (lines 1208-1210).  An exception is caught at line 1212
\* and failure returned; self.radio_volume keeps the new value.
update_settings_apply(c) ==
    /\ pc[c] = "us_apply"
    /\ UNCHANGED <<schedVars, envVars, regVars, radioVars, result, hist>>
    /\ \E o \in (IF vlc_instance /\ radio_player = "Player" THEN Outcomes ELSE {"ok"}) :
         /\ Charge(o)
         /\ IF o # "ok" THEN Return(c, "fail")
            ELSE IF vlc_instance /\ RadioIsPlaying THEN Goto(c, "us_set")
            ELSE Return(c, "ok")

\* Lines 1200-1210: audio_set_volume(new_vol_int) on the handle now in
\* radio_player, then save and success; without a handle the call raises
\* AttributeError into the handler at line 1212.
update_settings_set(c) ==
    /\ pc[c] = "us_set"
    /\ UNCHANGED <<schedVars, envVars, regVars, result, hist, faults>>
    /\ IF radio_player = "None"
       THEN Return(c, "fail") /\ UNCHANGED radioVars
       ELSE /\ player' = [player EXCEPT !.volume = VlcVolume(config.radio)]
            /\ UNCHANGED <<radio_player, unreleased>>
            /\ Return(c, "ok")

\* One thread calls the radio and playback methods one after another; no
\* scheduler runs.
NextRadio ==
    \/ call_start_radio(MainCaller)
    \/ call_stop_radio(MainCaller)
    \/ \E f \in AudioNames : call_play_audio(MainCaller, f)
    \/ call_fade(MainCaller)
    \/ \E v \in SettingsVolumes : update_settings(MainCaller, v)
    \/ update_settings_apply(MainCaller)
    \/ update_settings_set(MainCaller)
    \/ api_return(MainCaller)
    \/ MethodStep(MainCaller)
    \/ vlc_state_change

SpecRadio == Init /\ [][NextRadio]_vars

\* ------------------------------- the radio under the scheduler and a caller
\* The scheduler worker plays lines and restarts the radio while another
\* thread calls start_radio, stop_radio and update_settings.
InitRadioConc ==
    /\ Init
    /\ vlc_instance
    /\ config = PlaylistConfig
    /\ lines = <<Line(1, TRUE)>>
    /\ files = {1}

RadioWorkerStep(w) ==
    \/ scheduler_loop_begin(w)
    \/ scheduler_loop_clear(w)
    \/ scheduler_loop_test(w)
    \/ scheduler_loop_select(w)
    \/ scheduler_loop_play(w)
    \/ scheduler_loop_interval(w)
    \/ scheduler_loop_wait(w)
    \/ start_radio_check(w)
    \/ start_radio_new(w)
    \/ start_radio_started(w)
    \/ fade_check(w)
    \/ fade_step(w)
    \/ fade_pin(w)
    \/ play_audio_check(w)
    \/ play_audio_load(w)
    \/ play_audio_effects(w)
    \/ play_audio_duck(w)
    \/ play_audio_play(w)
    \/ play_audio_return_true(w)
    \/ play_audio_except(w)
    \/ play_audio_return_false(w)

\* The other thread enters start_radio (line 621) or stop_radio (line 702);
\* what the call returns is not recorded.
enter_start_radio(c) ==
    /\ pc[c] = "idle"
    /\ Call(c, "sr_check", "c_done", NoLocals)
    /\ UNCHANGED <<schedVars, envVars, regVars, radioVars, result, faults, hist>>

enter_stop_radio(c) ==
    /\ pc[c] = "idle"
    /\ Call(c, "xr_stop", "c_done", NoLocals)
    /\ UNCHANGED <<schedVars, envVars, regVars, radioVars, result, faults, hist>>

leave(c) ==
    /\ pc[c] \in {"c_done", "c_raised"}
    /\ GotoL(c, "idle", NoLocals)
    /\ UNCHANGED <<schedVars, envVars, regVars, radioVars, result, faults, hist>>

RadioCallerStep(c) ==
    \/ start_scheduler(c)
    \/ start_scheduler_spawn(c)
    \/ start_scheduler_flag(c)
    \/ enter_start_radio(c)
    \/ enter_stop_radio(c)
    \/ leave(c)
    \/ start_radio_check(c)
    \/ start_radio_new(c)
    \/ start_radio_started(c)
    \/ stop_radio_stop(c)
    \/ stop_radio_release(c)
    \/ stop_radio_clear(c)

NextRadioConc ==
    \/ RadioCallerStep(MainCaller)
    \/ \E w \in Workers : RadioWorkerStep(w)
    \/ vlc_state_change
    \/ segfault

SpecRadioConc == InitRadioConc /\ [][NextRadioConc]_vars

\* ------------------------- settings updated while the scheduler plays
\* The other thread enters update_settings (lines 1164-1196); what the call
\* returns is not recorded.
enter_update_settings(c, v) ==
    /\ pc[c] = "idle"
    /\ UNCHANGED <<schedVars, vlc_instance, regVars, radioVars, result, faults, hist>>
    /\ IF v \in 0..100
       THEN /\ config' = [config EXCEPT !.radio = v]
            /\ Call(c, "us_apply", "c_done", NoLocals)
       ELSE /\ UNCHANGED config
            /\ GotoL(c, "c_done", [NoLocals EXCEPT !.rv = "fail"])

DuckCallerStep(c) ==
    \/ start_scheduler(c)
    \/ start_scheduler_spawn(c)
    \/ start_scheduler_flag(c)
    \/ enter_start_radio(c)
    \/ \E v \in SettingsVolumes : enter_update_settings(c, v)
    \/ update_settings_apply(c)
    \/ update_settings_set(c)
    \/ leave(c)
    \/ start_radio_check(c)
    \/ start_radio_new(c)
    \/ start_radio_started(c)

\* The scheduler worker plays lines over the radio while another thread
\* starts the radio and updates the settings.
NextDuck ==
    \/ DuckCallerStep(MainCaller)
    \/ \E w \in Workers : RadioWorkerStep(w)
    \/ vlc_state_change

SpecDuck == InitRadioConc /\ [][NextDuck]_vars

\* ------------------------------------------- the volume of a new handle
\* Master volumes (0.0 to 2.0, src/models.py line 73) and radio volumes of
\* the configuration, in hundredths.
MasterVolumes == {0, 50, 100, 150, 200}
RadioVolumes == {0, 29, 50, 80, 100}

\* The system as constructed with a playlist and any of these volumes in
\* config.yaml.
InitVolumes ==
    /\ scheduler_thread = NoThread
    /\ stop_scheduler_event = FALSE
    /\ scheduler_running = FALSE
    /\ radio_player = "None"
    /\ player = NoPlayer
    /\ unreleased = 0
    /\ vlc_instance = TRUE
    /\ \E m \in MasterVolumes, r \in RadioVolumes :
         config = [PlaylistConfig EXCEPT !.master = m, !.radio = r]
    /\ lines = <<>>
    /\ files = {}
    /\ pc = [t \in Threads |-> IF t \in Workers THEN "unborn" ELSE "idle"]
    /\ stack = [t \in Threads |-> <<>>]
    /\ loc = [t \in Threads |-> NoLocals]
    /\ result = [c \in Callers |-> [op |-> "none", value |-> "none"]]
    /\ faults = 0
    /\ hist = NoHist

\* One thread starts and stops the radio.
NextVolumes ==
    \/ call_start_radio(MainCaller)
    \/ call_stop_radio(MainCaller)
    \/ api_return(MainCaller)
    \/ start_radio_check(MainCaller)
    \/ start_radio_new(MainCaller)
    \/ start_radio_started(MainCaller)
    \/ stop_radio_stop(MainCaller)
    \/ stop_radio_release(MainCaller)
    \/ stop_radio_clear(MainCaller)
    \/ vlc_state_change

SpecVolumes == InitVolumes /\ [][NextVolumes]_vars

\* ------------------------------------------------ fades between volumes
\* Radio and ducking volumes of the configuration, in hundredths: the ends
\* of the range, its middle, and values whose double product falls short.
FadeVolumes == {0, 1, 29, 50, 58, 99, 100}

\* The system as constructed with a playlist, one audio file and any of
\* these volumes in config.yaml.
InitFade ==
    /\ scheduler_thread = NoThread
    /\ stop_scheduler_event = FALSE
    /\ scheduler_running = FALSE
    /\ radio_player = "None"
    /\ player = NoPlayer
    /\ unreleased = 0
    /\ vlc_instance = TRUE
    /\ \E a \in FadeVolumes, b \in FadeVolumes :
         config = [PlaylistConfig EXCEPT !.radio = a, !.ducking = b]
    /\ lines = <<Line(1, TRUE)>>
    /\ files = {1}
    /\ pc = [t \in Threads |-> IF t \in Workers THEN "unborn" ELSE "idle"]
    /\ stack = [t \in Threads |-> <<>>]
    /\ loc = [t \in Threads |-> NoLocals]
    /\ result = [c \in Callers |-> [op |-> "none", value |-> "none"]]
    /\ faults = 0
    /\ hist = NoHist

\* One thread starts the radio, fades it and plays a file over it.
NextFade ==
    \/ call_start_radio(MainCaller)
    \/ call_play_audio(MainCaller, 1)
    \/ call_fade(MainCaller)
    \/ api_return(MainCaller)
    \/ start_radio_check(MainCaller)
    \/ start_radio_new(MainCaller)
    \/ start_radio_started(MainCaller)
    \/ fade_check(MainCaller)
    \/ fade_step(MainCaller)
    \/ fade_pin(MainCaller)
    \/ play_audio_check(MainCaller)
    \/ play_audio_load(MainCaller)
    \/ play_audio_effects(MainCaller)
    \/ play_audio_duck(MainCaller)
    \/ play_audio_play(MainCaller)
    \/ play_audio_return_true(MainCaller)
    \/ play_audio_except(MainCaller)
    \/ play_audio_return_false(MainCaller)
    \/ vlc_state_change

SpecFade == InitFade /\ [][NextFade]_vars

\* --------------------------------------------------- get_scheduler_status
\* A status query that trusts the running flag.
StatusByFlag == [running |-> scheduler_running, thread |-> scheduler_thread]

\* Lines 955-959: a thread object whose thread is not alive is forgotten
\* and the running flag cleared; the flag is the status.
Status ==
    IF scheduler_thread # NoThread /\ ~is_alive(scheduler_thread)
    THEN [running |-> FALSE, thread |-> NoThread]
    ELSE [running |-> scheduler_running, thread |-> scheduler_thread]

\* Line 953: a caller enters get_scheduler_status.
call_get_scheduler_status(c) ==
    /\ pc[c] = "idle"
    /\ Goto(c, "gs_check")
    /\ UNCHANGED <<schedVars, envVars, regVars, radioVars, result, faults, hist>>

\* Lines 955-959.
get_scheduler_status(c) ==
    /\ pc[c] = "gs_check"
    /\ scheduler_running' = Status.running
    /\ scheduler_thread' = Status.thread
    /\ result' = [result EXCEPT ![c] =
                    [op |-> "get_scheduler_status", value |-> Status.running]]
    /\ Goto(c, "idle")
    /\ UNCHANGED <<stop_scheduler_event, envVars, regVars, radioVars, faults, hist>>

\* One control thread starts and stops the scheduler and asks for its
\* status.
NextStatus ==
    \/ ControlStep(MainCaller)
    \/ call_get_scheduler_status(MainCaller)
    \/ get_scheduler_status(MainCaller)
    \/ \E w \in Workers : WorkerStep(w)
    \/ vlc_state_change

SpecStatus == Init /\ [][NextStatus]_vars

\* ------------------------------------------------------------ the registry
\* Audio file line_<n>.mp3 is named n; texts are named by numbers, Blank
\* being a text that is empty after strip().
Blank == 0
Texts == {Blank, 1, 2}

SetMax(S) == CHOOSE m \in S : \A n \in S : n <= m

\* Line 582: max([line.get('id', 0) for line in self.lines] + [0]) + 1
NextId == SetMax({lines[i].id : i \in 1..Len(lines)} \cup {0}) + 1

\* get_line_by_id (lines 966-971): the position of the first line with the
\* id, 0 when there is none.
PositionOfId(id) ==
    IF \E i \in 1..Len(lines) : lines[i].id = id
    THEN CHOOSE i \in 1..Len(lines) :
           lines[i].id = id /\ \A j \in 1..(i - 1) : lines[j].id # id
    ELSE 0

\* The elements of sequence seq at the positions in keep, in their order.
RECURSIVE SelectAt(_, _, _)
SelectAt(seq, keep, i) ==
    IF i > Len(seq) THEN <<>>
    ELSE IF i \in keep THEN <<seq[i]>> \o SelectAt(seq, keep, i + 1)
    ELSE SelectAt(seq, keep, i + 1)

\* A removal that keeps the ids the lines had.
NoReindex(seq) == seq

\* A re-indexing that numbers the lines from 0.
ReindexFromZero(seq) == [i \in 1..Len(seq) |-> [seq[i] EXCEPT !.id = i - 1]]

\* Lines 1142-1144: line['id'] = new_idx + 1.
Reindex(seq) == [i \in 1..Len(seq) |-> [seq[i] EXCEPT !.id = i]]

\* The observation of a registry call: what it was asked, what it returned
\* and the audio file it wrote (0: none).
RegistryCall(c, op, arg, value, written) ==
    result' = [result EXCEPT ![c] =
                 [op |-> op, arg |-> arg, value |-> value, written |-> written]]

\* Lines 973-996, with generate_speech (lines 536-620): a blank text or a
\* failed generation changes nothing; otherwise the audio is written to
\* line_<next_id>.mp3 and a new active line with that id is appended.
add_line(c, text) ==
    /\ pc[c] = "idle"
    /\ Len(lines) < MaxLines
    /\ UNCHANGED <<schedVars, envVars, radioVars, threadVars, faults, hist>>
    /\ \E generated \in BOOLEAN :
         IF text = Blank \/ ~generated
         THEN /\ UNCHANGED regVars
              /\ RegistryCall(c, "add_line", text, "fail", 0)
         ELSE /\ files' = files \cup {NextId}
              /\ lines' = Append(lines, [id |-> NextId, text |-> text,
                                          filename |-> NextId, active |-> TRUE])
              /\ RegistryCall(c, "add_line", text, "ok", NextId)

\* Lines 998-1042: the audio of the new text is written to
\* line_<next_id>.mp3, an old file of another name is deleted, and the line
\* gets the new text and filename.
edit_line(c, id, text) ==
    /\ pc[c] = "idle"
    /\ UNCHANGED <<schedVars, envVars, radioVars, threadVars, hist>>
    /\ \E generated \in BOOLEAN :
         IF text = Blank \/ PositionOfId(id) = 0 \/ ~generated
         THEN /\ UNCHANGED <<regVars, faults>>
              /\ RegistryCall(c, "edit_line", <<id, text>>, "fail", 0)
         ELSE LET i == PositionOfId(id)
                  old == lines[i].filename
              IN  /\ files' = (files \ {old}) \cup {NextId}
                  /\ UNCHANGED faults
                  /\ lines' = [lines EXCEPT ![i].text = text, ![i].filename = NextId]
                  /\ RegistryCall(c, "edit_line", <<id, text>>, "ok", NextId)

\* The new_state values of bulk_toggle_sync; None flips each line.
ToggleStates == {"None", "True", "False"}

\* Lines 1044-1081.
bulk_toggle_sync(c, ids, new_state) ==
    /\ pc[c] = "idle"
    /\ LET target(i) == IF new_state = "None" THEN ~lines[i].active
                         ELSE new_state = "True"
            changed == {i \in 1..Len(lines) :
                          lines[i].id \in ids /\ lines[i].active # target(i)}
       IN  /\ lines' = [i \in 1..Len(lines) |->
                          IF i \in changed THEN [lines[i] EXCEPT !.active = target(i)]
                          ELSE lines[i]]
           /\ RegistryCall(c, "bulk_toggle_sync", ids, Cardinality(changed), 0)
    /\ UNCHANGED <<schedVars, envVars, files, radioVars, threadVars, faults, hist>>

\* Lines 1097-1152: the lines whose id is in ids_to_remove are dropped, their
\* audio files deleted, and the lines kept are re-indexed;
\* nothing changes when no id matches.
remove_lines_sync(c, ids) ==
    /\ pc[c] = "idle"
    /\ UNCHANGED <<schedVars, envVars, radioVars, threadVars, hist>>
    /\ LET keep == {i \in 1..Len(lines) : lines[i].id \notin ids}
           gone == {lines[i].filename : i \in (1..Len(lines)) \ keep}
       IN  IF keep = 1..Len(lines)
           THEN /\ UNCHANGED <<regVars, faults>>
                /\ RegistryCall(c, "remove_lines_sync", ids, 0, 0)
           ELSE /\ files' = files \ gone
                /\ UNCHANGED faults
                /\ lines' = Reindex(SelectAt(lines, keep, 1))
                /\ RegistryCall(c, "remove_lines_sync", ids,
                                Len(lines) - Cardinality(keep), 0)

\* Lines 1154-1161: remove_lines_sync with the ids of all lines.
remove_all_lines(c) ==
    remove_lines_sync(c, {lines[i].id : i \in 1..Len(lines)})

\* src/main.py parse_id_ranges (lines 861-899): the ids a user names, as
\* zero-based indices of existing lines.
parse_id_ranges(ids) == {k - 1 : k \in {n \in ids : 1 <= n /\ n <= Len(lines)}}

\* src/main.py lines 812-858: the lines at the given zero-based indices are
\* dropped, their audio files deleted, and the lines kept are re-indexed.
main_remove_lines_sync(c, ids) ==
    /\ pc[c] = "idle"
    /\ UNCHANGED <<schedVars, envVars, radioVars, threadVars, hist>>
    /\ LET indices == parse_id_ranges(ids)
           keep == {i \in 1..Len(lines) : (i - 1) \notin indices}
           gone == {lines[i].filename : i \in (1..Len(lines)) \ keep}
       IN  IF keep = 1..Len(lines)
           THEN /\ UNCHANGED <<regVars, faults>>
                /\ RegistryCall(c, "remove_lines_sync", ids, 0, 0)
           ELSE /\ files' = files \ gone
                /\ UNCHANGED faults
                /\ lines' = Reindex(SelectAt(lines, keep, 1))
                /\ RegistryCall(c, "remove_lines_sync", ids,
                                Len(lines) - Cardinality(keep), 0)

\* The system as constructed with no lines.json and an empty audio folder.
InitRegistry ==
    /\ Init
    /\ vlc_instance
    /\ config = PlaylistConfig
    /\ lines = <<>>
    /\ files = {}

\* The ids a caller may name.
LineIds == 1..MaxLines

\* One thread edits the registry; no scheduler runs.
NextRegistry ==
    \/ \E text \in Texts : add_line(MainCaller, text)
    \/ \E id \in LineIds, text \in Texts : edit_line(MainCaller, id, text)
    \/ \E ids \in SUBSET LineIds, st \in ToggleStates :
         bulk_toggle_sync(MainCaller, ids, st)
    \/ \E b \in BOOLEAN : toggle_all_lines(MainCaller, b)
    \/ \E ids \in SUBSET LineIds : remove_lines_sync(MainCaller, ids)
    \/ \E ids \in SUBSET LineIds : main_remove_lines_sync(MainCaller, ids)
    \/ remove_all_lines(MainCaller)

SpecRegistry == InitRegistry /\ [][NextRegistry]_vars

\* ----------------------------- the registry changed under the scheduler
\* The system as constructed with two lines, the second one inactive, and
\* both audio files.
InitSnapshot ==
    /\ scheduler_thread = NoThread
    /\ stop_scheduler_event = FALSE
    /\ scheduler_running = FALSE
    /\ radio_player = "None"
    /\ player = NoPlayer
    /\ unreleased = 0
    /\ vlc_instance = TRUE
    /\ config = PlaylistConfig
    /\ lines = <<Line(1, TRUE), Line(2, FALSE)>>
    /\ files = {1, 2}
    /\ pc = [t \in Threads |-> IF t \in Workers THEN "unborn" ELSE "idle"]
    /\ stack = [t \in Threads |-> <<>>]
    /\ loc = [t \in Threads |-> NoLocals]
    /\ result = [c \in Callers |-> [op |-> "none", value |-> "none"]]
    /\ faults = 0
    /\ hist = NoHist

SnapshotCallerStep(c) ==
    \/ start_scheduler(c)
    \/ start_scheduler_spawn(c)
    \/ start_scheduler_flag(c)
    \/ start_scheduler_join(c)
    \/ \E id \in 1..2 : bulk_toggle_sync(c, {id}, "None")
    \/ \E id \in 1..2 : remove_lines_sync(c, {id})

\* The scheduler worker takes its snapshots and plays lines while another
\* thread toggles and removes lines.
NextSnapshot ==
    \/ SnapshotCallerStep(MainCaller)
    \/ \E w \in Workers : RadioWorkerStep(w)
    \/ vlc_state_change

SpecSnapshot == InitSnapshot /\ [][NextSnapshot]_vars

\* ------------------------------------------- start_radio of src/main.py
\* main.py lines 458-463 and 500-503: a playing player is kept; without a
\* stream URL failure is returned and radio_player is left as it is.
main_start_radio_check(t) ==
    /\ pc[t] = "msr_check"
    /\ UNCHANGED <<schedVars, envVars, regVars, radioVars, result, hist, faults>>
    /\ IF RadioIsPlaying THEN Return(t, "ok")
       ELSE IF StreamUrl = "bad" THEN Raise(t)
       ELSE IF StreamUrl = "none" THEN Return(t, "fail")
       ELSE Goto(t, "msr_new")

\* The outcomes of creating and starting a player: it plays, a call raises
\* (within the budget), or play() returns -1.
StartOutcomes == Outcomes \cup (IF unreleased < MaxHandles THEN {"refused"} ELSE {})

\* main.py lines 464-483: an old player is released, a new one created at
\* the configured volume and started.  play() = -1 sets radio_player to None
\* and returns failure (lines 479-483); an exception releases the player
\* (lines 493-499).
main_start_radio_new(t) ==
    /\ pc[t] = "msr_new"
    /\ UNCHANGED <<schedVars, envVars, regVars, result, hist>>
    /\ \E o \in StartOutcomes :
         /\ Charge(IF o = "refused" THEN "ok" ELSE o)
         /\ LET kept == IF radio_player = "Player" THEN unreleased - 1 ELSE unreleased
            IN  CASE o = "ok" ->
                       /\ radio_player' = "Player"
                       /\ player' = [state |-> "Opening",
                                     volume |-> VlcVolume(config.radio)]
                       /\ unreleased' = kept + 1
                       /\ Goto(t, "msr_sleep")
                  [] o = "refused" ->
                       /\ radio_player' = "None"
                       /\ player' = NoPlayer
                       /\ unreleased' = kept + 1
                       /\ Return(t, "fail")
                  [] OTHER ->
                       /\ radio_player' = "None"
                       /\ player' = NoPlayer
                       /\ unreleased' = kept
                       /\ Return(t, "fail")

\* main.py lines 484-499: after 2 s is_playing() is read and success
\* returned; an exception there releases the player and returns failure.
main_start_radio_started(t) ==
    /\ pc[t] = "msr_sleep"
    /\ UNCHANGED <<schedVars, envVars, regVars, result, hist>>
    /\ \E o \in Outcomes :
         /\ Charge(o)
         /\ IF o = "ok"
            THEN Return(t, "ok") /\ UNCHANGED radioVars
            ELSE /\ radio_player' = "None"
                 /\ player' = NoPlayer
                 /\ unreleased' = AfterRelease
                 /\ Return(t, "fail")

\* main.py line 456.
call_main_start_radio(c) ==
    /\ pc[c] = "idle"
    /\ Call(c, "msr_check", "c_ret", NoLocals)
    /\ ApiCall(c, "start_radio", 0)
    /\ UNCHANGED <<schedVars, envVars, regVars, radioVars, faults, hist>>

\* main.py line 685: what stop_scheduler returns when no worker is alive.
MainNotRunningResult == "fail"

\* main.py lines 680-691: with no live worker the flag is cleared and
\* failure returned; otherwise the event is set and the caller joins the
\* thread.
main_stop_scheduler(c) ==
    /\ pc[c] = "idle"
    /\ IF ~AlreadyRunning
       THEN /\ scheduler_running' = FALSE
            /\ result' = [result EXCEPT ![c] =
                            [op |-> "stop_scheduler", value |-> MainNotRunningResult]]
            /\ hist' = IF Len(hist.quiet_stops) >= MaxRun THEN hist
                        ELSE [hist EXCEPT !.quiet_stops = Append(@, MainNotRunningResult)]
            /\ UNCHANGED <<scheduler_thread, stop_scheduler_event, threadVars>>
       ELSE /\ stop_scheduler_event' = TRUE
            /\ result' = [result EXCEPT ![c] = [op |-> "stop_scheduler", value |-> "pending"]]
            /\ GotoL(c, "st_join", [loc[c] EXCEPT !.target = scheduler_thread])
            /\ hist' = [EndRun EXCEPT !.signalled = @ \cup {scheduler_thread}]
            /\ UNCHANGED <<scheduler_thread, scheduler_running>>
    /\ UNCHANGED <<envVars, regVars, radioVars, faults>>

\* main.py always has a VLC instance (line 226).
InitMain ==
    /\ Init
    /\ vlc_instance

\* One thread calls start_radio and stop_scheduler of src/main.py again and
\* again; no scheduler was started.
NextMain ==
    \/ call_main_start_radio(MainCaller)
    \/ main_stop_scheduler(MainCaller)
    \/ main_start_radio_check(MainCaller)
    \/ main_start_radio_new(MainCaller)
    \/ main_start_radio_started(MainCaller)
    \/ api_return(MainCaller)
    \/ vlc_state_change

SpecMain == InitMain /\ [][NextMain]_vars

\* ============================================================ properties
AliveWorkers == {w \in Workers : is_alive(w)}

\* C1: start_scheduler called while a worker thread is alive returns the
\* 'already running' failure at once, creates no thread, and leaves the
\* worker, the thread reference, the stop signal and the running flag as
\* they were.
C1_StartWhileAlive ==
    [][\A c \in Callers :
         (AliveWorkers # {} /\ start_scheduler(c)) =>
            /\ result'[c] = [op |-> "start_scheduler", value |-> "AlreadyRunning"]
            /\ pc'[c] = "idle"
            /\ pc' = pc
            /\ UNCHANGED schedVars]_vars

\* A start_scheduler call has been refused while the worker is alive.
C1_Witness ==
    /\ result[MainCaller] = [op |-> "start_scheduler", value |-> "AlreadyRunning"]
    /\ AliveWorkers # {}

\* C2: whatever the interleaving of start_scheduler and stop_scheduler
\* calls from several threads, at most one worker is alive.
C2_AtMostOneWorker == Cardinality(AliveWorkers) <= 1

\* C3: a stop_scheduler call with no worker alive returns success and
\* leaves the running flag False; of two such calls in a row both return
\* success and the second leaves the state the first left.
C3_StopIsIdempotent ==
    /\ \A i \in 1..Len(hist.quiet_stops) : hist.quiet_stops[i] = "ok"
    /\ hist.quiet_stops # <<>> =>
          /\ ~scheduler_running
          /\ hist.first = <<scheduler_thread, scheduler_running, stop_scheduler_event>>

\* stop_scheduler has been called twice in a row with no worker alive,
\* after a worker had run and ended.
C3_Witness ==
    /\ Len(hist.quiet_stops) = 2
    /\ result[MainCaller] = [op |-> "stop_scheduler", value |-> "ok"]
    /\ \E w \in Workers : pc[w] = "dead"

\* C4: once stop_scheduler has signalled a live worker, that worker leaves
\* its loop at the next test of the signal: from the loop test and from any
\* of its waits its next step is the exit, and it starts no other iteration.
C4_SignalledWorkerExits ==
    [][\A w \in Workers :
         (w \in hist.signalled /\ pc[w] \in {"w_loop", "w_wait"} /\ pc'[w] # pc[w])
            => pc'[w] = "w_exit"]_vars

\* C5: stop_scheduler returns success only when no worker is alive at its
\* return, and when it reports the join timeout the stop signal is still set.
C5_TimeoutKeepsSignal ==
    [][\A c \in Callers :
         (pc[c] = "st_join" /\ pc'[c] = "idle") =>
            /\ result'[c].value = "ok" => AliveWorkers' = {}
            /\ result'[c].value = "Timeout" => stop_scheduler_event']_vars

\* C6: at the step that ends the worker after it left its loop, the radio
\* holds no player (stop_radio has run wherever a player can exist) and
\* the running flag is False.
C6_WorkerEndsStopped ==
    [][\A w \in Workers :
         (pc[w] = "w_exit_flag" /\ pc'[w] = "dead") =>
            /\ radio_player' = "None"
            /\ ~scheduler_running']_vars

\* A worker that had started the radio has ended after a stop request.
C6_Witness ==
    /\ \E w \in Workers : pc[w] = "dead"
    /\ vlc_instance /\ config.playlist = "ok" /\ faults = 0
    /\ result[MainCaller] = [op |-> "stop_scheduler", value |-> "ok"]
    /\ radio_player = "None" /\ ~scheduler_running

\* C7: a worker thread ends only while the stop signal is set: no exception
\* ends it.
C7_WorkerEndsOnlyOnSignal ==
    [][\A w \in Workers :
         (is_alive(w) /\ pc'[w] \in {"dead", "crashed"}) => stop_scheduler_event]_vars

\* No line is active with its audio file present.
NoPlayableLine ==
    \A i \in 1..Len(lines) : ~(lines[i].active /\ lines[i].filename \in files)

C9_OnePlaybackAtATime ==
    Cardinality({t \in Threads : pc[t] = "pa_play"}) <= 1

\* C10: when play_audio has returned to the worker and the radio is
\* playing, the radio volume is the configured radio volume.
C10_VolumeRestored ==
    \A w \in Workers :
       (pc[w] = "w_interval" /\ RadioIsPlaying) =>
          player.volume = VlcVolume(config.radio)

C12_MissingFileFails ==
    /\ [](\A c \in Callers :
            (result[c].op = "play_audio" /\ result[c].arg \notin files
                /\ pc[c] = "idle") =>
               /\ result[c].value = "fail"
               /\ radio_player = result[c].pre.radio_player
               /\ player.volume = result[c].pre.player.volume
               /\ unreleased = result[c].pre.unreleased)
    /\ [][\A t \in Threads :
            (pc[t] = "pa_check" /\ loc[t].line \notin files /\ pc'[t] # pc[t]) =>
               /\ pc'[t] = Head(stack[t])
               /\ loc'[t].rv = "fail"
               /\ UNCHANGED radioVars]_vars

\* play_audio has returned failure for a missing file while the radio plays.
C12_Witness ==
    /\ pc[MainCaller] = "idle"
    /\ result[MainCaller].op = "play_audio"
    /\ result[MainCaller].arg \notin files
    /\ result[MainCaller].value = "fail"
    /\ RadioIsPlaying

\* C13: every return of stop_radio reports success and leaves no handle:
\* radio_player is None and the handle it held has been released.
C13_StopRadioAlwaysSucceeds ==
    [][\A t \in Threads :
         (pc[t] \in {"xr_stop", "xr_release", "xr_clear"} /\ pc'[t] = Head(stack[t])) =>
            /\ loc'[t].rv = "ok"
            /\ radio_player' = "None"
            /\ unreleased' = 0]_vars

\* C14: every failing return of start_radio, in either variant, leaves
\* radio_player None and no handle unreleased.
C14_FailedStartReleases ==
    [][\A t \in Threads :
         (pc[t] \in {"sr_check", "sr_new", "sr_sleep",
                     "msr_check", "msr_new", "msr_sleep"}
             /\ pc'[t] = Head(stack[t]) /\ loc'[t].rv = "fail") =>
            /\ radio_player' = "None"
            /\ unreleased' = 0]_vars

\* C15: start_radio that finds its handle reported Playing or Buffering
\* returns success from its first test: no handle is released or created
\* and the volume is not changed.
C15_StartWhilePlayingIsNoOp ==
    [][\A t \in Threads :
         (pc[t] = "sr_check" /\ PlayingOrBuffering /\ faults' = faults
             /\ pc'[t] # pc[t]) =>
            /\ pc'[t] = Head(stack[t])
            /\ loc'[t].rv = "ok"
            /\ UNCHANGED radioVars]_vars

\* start_radio has returned success for a call that found the radio playing
\* and left the handle and its volume as they were.
C15_Witness ==
    /\ pc[MainCaller] = "idle"
    /\ result[MainCaller].op = "start_radio"
    /\ result[MainCaller].value = "ok"
    /\ result[MainCaller].pre.radio_player = "Player"
    /\ result[MainCaller].pre.player.state \in {"Playing", "Buffering"}
    /\ result[MainCaller].pre = Pre

\* C16: while the scheduler runs (with a VLC instance), an iteration of the
\* loop that finds the radio neither playing nor buffering, or without a
\* handle, calls start_radio, whatever the registry holds.
C16_RadioRestartedEachIteration ==
    [][\A w \in Workers :
         (pc[w] = "w_snap" /\ vlc_instance /\ ~PlayingOrBuffering
             /\ pc'[w] # pc[w]) => pc'[w] = "sr_check"]_vars

\* C17: at any time the only radio handle created and not yet released is
\* the one radio_player holds: a handle that was replaced or dropped has
\* been released.
C17_AtMostOneHandle ==
    unreleased <= (IF radio_player = "Player" THEN 1 ELSE 0)

\* C18: no thread calls get_state, is_playing or audio_set_volume on the
\* handle in radio_player after release() has been called on it.
C18_NoUseAfterRelease ==
    [][\A t \in Threads :
         (UsesHandle(t) /\ pc[t] # "xr_release" /\ player.state = "Released") =>
            <<pc[t], stack[t], loc[t]>>' = <<pc[t], stack[t], loc[t]>>]_vars

\* C19: _fade_radio_volume called without a radio handle, or with a handle
\* that is not Playing or Buffering, returns from its first test: no volume
\* is set and the radio is left as it was.
C19_FadeNoOpWhenNotPlaying ==
    [][\A t \in Threads :
         (pc[t] = "fd_check" /\ ~PlayingOrBuffering /\ pc'[t] # pc[t]) =>
            /\ pc'[t] = Head(stack[t])
            /\ UNCHANGED radioVars]_vars

\* _fade_radio_volume has returned from a call that found a handle whose
\* stream had ended, and the handle and its volume are as the call found them.
C19_Witness ==
    /\ pc[MainCaller] = "idle"
    /\ result[MainCaller].op = "_fade_radio_volume"
    /\ result[MainCaller].value # "pending"
    /\ result[MainCaller].pre.radio_player = "Player"
    /\ result[MainCaller].pre.player.state = "Ended"
    /\ result[MainCaller].pre.player.volume # VlcVolume(config.ducking)
    /\ result[MainCaller].pre = Pre

\* The volume the fade thread t is in was asked to end at, in hundredths:
\* the ducking volume for the fade down, the radio volume for a fade up.
FadeEnd(t) ==
    IF Head(stack[t]) \in {"pa_play", "c_ret"} THEN config.ducking ELSE config.radio

\* end_vol * 100 clamped to 0..100.
OnScale(vol) == Max(0, Min(100, vol))

Between(v, a, b) == Min(a, b) <= v /\ v <= Max(a, b)

\* C20: a fade that completes on a radio handle leaves the volume exactly
\* at its end value on the 0..100 scale, every volume it sets on the way
\* lies between its start and end values, and the fade back up after a fade
\* down leaves the volume within 1 of the radio volume.
C20_FadeEndsExactlyAtEnd ==
    [][\A t \in Threads :
         /\ (pc[t] = "fd_step" /\ radio_player = "Player") =>
               Between(player'.volume, loc[t].fstart, loc[t].fend)
         /\ (pc[t] = "fd_pin" /\ radio_player = "Player") =>
               player'.volume = OnScale(FadeEnd(t))]_vars

\* C20 as the code has it: the fade ends at int(end_vol * 100) clamped to
\* 0..100, which is the end value on the 0..100 scale or 1 below it; every
\* volume set on the way lies between the clamped start and end; the fade
\* back up ends within 1 of the radio volume.
C20_FadeEndsAtTruncatedEnd ==
    [][\A t \in Threads :
         /\ (pc[t] = "fd_step" /\ radio_player = "Player") =>
               Between(player'.volume, loc[t].fstart, loc[t].fend)
         /\ (pc[t] = "fd_pin" /\ radio_player = "Player") =>
               /\ player'.volume = VlcVolume(FadeEnd(t))
               /\ player'.volume \in {OnScale(FadeEnd(t)) - 1, OnScale(FadeEnd(t))}
               /\ player'.volume >= 0]_vars

\* play_audio has returned success after fading a playing radio down from
\* 0.58 and back up: the volume is 57, where the call found it.
C20_Witness ==
    /\ pc[MainCaller] = "idle"
    /\ result[MainCaller].op = "play_audio"
    /\ result[MainCaller].value = "ok"
    /\ result[MainCaller].pre.player.state = "Playing"
    /\ config.radio = 58
    /\ config.ducking = 29
    /\ faults = 0
    /\ player.volume = 57
    /\ result[MainCaller].pre.player.volume = 57

\* C21: when another thread stops and releases the radio handle while a
\* thread is in the ramp of _fade_radio_volume, the fading thread's next
\* step stays in the fade or returns to the statement after the call: no
\* exception reaches the caller and the thread does not end.
C21_FadeSurvivesRelease ==
    [][\A t \in Threads :
         (/\ pc[t] \in {"fd_step", "fd_pin"}
          /\ radio_player = "None" \/ player.state \in {"Stopped", "Released"}
          /\ <<pc[t], stack[t], loc[t]>>' # <<pc[t], stack[t], loc[t]>>) =>
            pc'[t] \in {"fd_step", "fd_pin", Head(stack[t])}]_vars

\* C22: when update_settings returns success, a radio handle that is playing
\* or buffering (one the next start_radio keeps) has the new radio volume,
\* and otherwise no handle was touched; a player that start_radio creates
\* starts at the configured radio volume.
C22_SettingsVolumeApplied ==
    [][\A t \in Threads :
         /\ (pc[t] \in {"us_apply", "us_set"} /\ pc'[t] = Head(stack[t])
                 /\ loc'[t].rv = "ok") =>
               IF radio_player' = "Player" /\ player'.state \in {"Playing", "Buffering"}
               THEN player'.volume = VlcVolume(config'.radio)
               ELSE UNCHANGED radioVars
         /\ (pc[t] = "sr_new" /\ pc'[t] = "sr_sleep") =>
               player'.volume = VlcVolume(config.radio)]_vars

\* C23: get_scheduler_status that finds a thread object whose thread is
\* not alive clears the running flag and the thread handle and returns
\* False.
C23_DeadWorkerReportedStopped ==
    [][\A c \in Callers :
         (pc[c] = "gs_check" /\ pc'[c] # pc[c]
             /\ scheduler_thread # NoThread /\ ~is_alive(scheduler_thread)) =>
            /\ scheduler_running' = FALSE
            /\ scheduler_thread' = NoThread
            /\ result'[c].op = "get_scheduler_status"
            /\ result'[c].value = FALSE]_vars

\* A worker ended by an exception of its first start_radio, with no stop
\* requested and the running flag left set; the status query that followed
\* returned False and forgot the thread.
C23_Witness ==
    /\ \E w \in Workers : pc[w] = "crashed"
    /\ hist.signalled = {}
    /\ result[MainCaller].op = "get_scheduler_status"
    /\ result[MainCaller].value = FALSE
    /\ ~scheduler_running
    /\ scheduler_thread = NoThread
    /\ pc[MainCaller] = "idle"

\* The step is a return of the registry call op.
RegistryStep(op) ==
    /\ result'[MainCaller].op = op
    /\ result'[MainCaller] # result[MainCaller] \/ lines' # lines

\* C24: remove_lines_sync (either variant) called with ids of which at least
\* one exists leaves exactly the lines whose id was not named, in their
\* previous order, numbered 1..M, with text, filename and active flag as
\* they were.
C24_RemoveKeepsOrderAndFields ==
    [][(RegistryStep("remove_lines_sync")
          /\ \E i \in 1..Len(lines) : lines[i].id \in result'[MainCaller].arg) =>
         LET kept == {i \in 1..Len(lines) : lines[i].id \notin result'[MainCaller].arg}
             M == Len(lines')
         IN  /\ M = Cardinality(kept)
             /\ \A j \in 1..M : lines'[j].id = j
             /\ \E f \in [1..M -> kept] :
                  /\ \A j, k \in 1..M : j < k => f[j] < f[k]
                  /\ \A j \in 1..M :
                       /\ lines'[j].text = lines[f[j]].text
                       /\ lines'[j].filename = lines[f[j]].filename
                       /\ lines'[j].active = lines[f[j]].active]_vars

\* Line 1 of three was removed: the lines that were second and third are
\* numbered 1 and 2 and still name the audio files line_2.mp3 and line_3.mp3.
C24_Witness ==
    /\ result[MainCaller].op = "remove_lines_sync"
    /\ result[MainCaller].arg = {1}
    /\ result[MainCaller].value = 1
    /\ Len(lines) = 2
    /\ lines[1].id = 1 /\ lines[1].filename = 2 /\ lines[1].text = 2
    /\ lines[2].id = 2 /\ lines[2].filename = 3 /\ ~lines[2].active

\* C25: starting from an empty registry, after any sequence of registry
\* calls the ids of the lines are distinct and are exactly 1..N, N being
\* the number of lines.
C25_IdsDense ==
    /\ {lines[i].id : i \in 1..Len(lines)} = 1..Len(lines)
    /\ \A i, j \in 1..Len(lines) : lines[i].id = lines[j].id => i = j

\* Three lines after a removal and a new add_line: the line added last has
\* id 3, and an earlier line names an audio file numbered unlike its id.
C25_Witness ==
    /\ result[MainCaller].op = "add_line"
    /\ result[MainCaller].value = "ok"
    /\ Len(lines) = 3
    /\ lines[3].id = 3
    /\ \E i \in 1..2 : lines[i].filename # lines[i].id

\* C26: a failure inside an effect stage (distortion, compression or gain)
\* is not propagated: play_audio goes on to duck the radio and play the
\* line.
C26_EffectsFailOpen ==
    [][\A t \in Threads :
         (pc[t] = "pa_effects" /\ pc'[t] # pc[t] /\ faults' > faults) =>
            pc'[t] = "pa_duck"]_vars

\* C27: in src/main.py a stop_scheduler call with no worker alive returns
\* success, and so does a second such call in a row.
C27_MainStopIsIdempotent ==
    (result[MainCaller].op = "stop_scheduler" /\ AliveWorkers = {}) =>
        /\ result[MainCaller].value = "ok"
        /\ \A i \in 1..Len(hist.quiet_stops) : hist.quiet_stops[i] = "ok"

\* C28: while a worker that stop_scheduler has signalled is alive, the stop
\* signal stays set.
C28_SignalKeptWhileWorkerAlive ==
    [][(stop_scheduler_event /\ \E w \in hist.signalled : is_alive(w))
          => stop_scheduler_event']_vars

\* C29: after every registry call no two lines name the same audio file,
\* and the audio file a call writes is not one that a line other than the
\* edited one names.
C29_FilenamesDistinct ==
    [][/\ \A i, j \in 1..Len(lines') :
            lines'[i].filename = lines'[j].filename => i = j
       /\ (RegistryStep("add_line") /\ result'[MainCaller].written # 0) =>
             \A i \in 1..Len(lines) : lines[i].filename # result'[MainCaller].written
       /\ (RegistryStep("edit_line") /\ result'[MainCaller].written # 0) =>
             \A i \in 1..Len(lines) :
                lines[i].filename = result'[MainCaller].written =>
                   i = PositionOfId(result'[MainCaller].arg[1])]_vars

\* C30: while a thread is in the play step of play_audio over a playing
\* radio that the duck fade left at the ducking level, a step that keeps the
\* thread in the play step and the same handle playing leaves the handle's
\* volume at the ducking level.
C30_DuckedWhilePlaying ==
    [][\A t \in Threads :
          (/\ pc[t] = "pa_play" /\ pc'[t] = "pa_play"
           /\ loc[t].radio_playing
           /\ RadioIsPlaying /\ RadioIsPlaying'
           /\ unreleased' = unreleased
           /\ player.volume = VlcVolume(config.ducking))
          => player'.volume = VlcVolume(config'.ducking)]_vars

\* C31: get_scheduler_status does not return False while a worker thread
\* is alive and has not yet left its loop.
C31_NoFalseStatusWhileWorkerAlive ==
    [][(/\ pc[MainCaller] = "gs_check" /\ pc'[MainCaller] = "idle"
        /\ result'[MainCaller].value = FALSE)
       => \A w \in Workers :
             is_alive(w) => pc[w] \in {"w_exit", "w_exit_flag"}]_vars

\* C32: once start_scheduler has returned a failure other than 'already
\* running', no worker thread is alive: the thread the call created, if
\* any, does not live on.
C32_FailedStartLeavesNoWorker ==
    (/\ pc[MainCaller] = "idle"
     /\ result[MainCaller].op = "start_scheduler"
     /\ result[MainCaller].value \in {"ThreadStartFailed", "NotStarted", "raised"})
    => AliveWorkers = {}

\* C33: the radio check comes before the snapshot in an iteration: once the
\* worker has taken the snapshot and selected a line from it, its next call
\* is the playback of that line, not start_radio.
C33_RadioCheckBeforeSnapshot ==
    [][\A w \in Workers :
         (pc[w] = "w_snap" /\ pc'[w] # pc[w] /\ loc'[w].line # 0)
            => pc'[w] = "pa_check"]_vars

\* C34: the line a worker selects is, in the registry as it is when the
\* snapshot is taken, active with its audio file present; the worker's
\* selection changes at the snapshot only, and the file name it passes to
\* play_audio is the selected one.
C34_PlayedLineWasInSnapshot ==
    [][\A w \in Workers :
         /\ (pc[w] = "w_snap" /\ loc'[w].line # 0) =>
               \E i \in 1..Len(lines) :
                  /\ lines[i].active
                  /\ lines[i].filename = loc'[w].line
                  /\ lines[i].filename \in files
         /\ pc[w] # "w_snap" => loc'[w].line \in {loc[w].line, 0}
         /\ (pc[w] # "pa_check" /\ pc'[w] = "pa_check") =>
               /\ pc[w] \in {"w_snap", "w_sleep2"}
               /\ loc'[w].line # 0]_vars

\* A worker is about to play line 1 while the registry also holds a line
\* that was inactive when the snapshot was taken and is inactive still.
C34_Witness ==
    \E w \in Workers :
       /\ pc[w] = "pa_check" /\ loc[w].line = 1
       /\ \E i \in 1..Len(lines) : ~lines[i].active /\ lines[i].filename \in files

C36_WorkerLeavesRegistry ==
    [][(\E w \in Workers : WorkerStep(w)) => lines' = lines]_vars

\* play_audio has returned failure to the worker, and the line it was
\* given is in the registry, active as before.
C36_Witness ==
    \E w \in Workers :
       /\ pc[w] = "w_interval" /\ loc[w].rv = "fail"
       /\ \E i \in 1..Len(lines) : lines[i].filename = loc[w].line /\ lines[i].active

\* The worker has selected a line in this iteration and has not yet
\* come back from its playback: it is in the restart of the radio before
\* the playback, or in play_audio.
PlayingSelection(w) ==
    /\ loc[w].line # 0
    /\ \/ pc[w] = "w_sleep2"
       \/ stack[w] # <<>> /\ stack[w][Len(stack[w])] \in {"w_sleep2", "w_interval"}

\* C37: a worker whose selected line has lost its audio file to a removal
\* by another thread stays alive and in its iteration; play_audio returns
\* success or failure to it, and its next step after that is the interval
\* wait.
C37_RemovedLineDoesNotStopWorker ==
    [][\A w \in Workers :
         /\ (PlayingSelection(w) /\ loc[w].line \notin files) =>
               /\ pc'[w] \notin {"crashed", "aborted", "dead", "w_except",
                                 "w_exit", "w_loop", "w_wait"}
               /\ pc'[w] = "w_interval" => loc'[w].rv \in {"ok", "fail"}
         /\ (pc[w] = "w_interval" /\ loc[w].line \notin files /\ pc'[w] # pc[w]) =>
               pc'[w] = "w_wait"]_vars

\* play_audio has returned failure to the worker for a line that another
\* thread removed after the snapshot.
C37_Witness ==
    \E w \in Workers :
       /\ pc[w] = "w_interval" /\ loc[w].line # 0 /\ loc[w].line \notin files
       /\ loc[w].rv = "fail"
       /\ result[MainCaller].op = "remove_lines_sync"
       /\ \A i \in 1..Len(lines) : lines[i].filename # loc[w].line

\* C38: a start_radio call of the worker that ends without a playing
\* radio, by returning failure or by an exception, brings the worker back
\* to where it called from: to the loop test after the call at the start
\* of the thread, to the playback of the selected line after the call
\* inside an iteration.
C38_RadioFailureKeepsSchedule ==
    [][\A w \in Workers :
         /\ (stack[w] = <<"w_loop">> /\ stack'[w] = <<>>) => pc'[w] = "w_loop"
         /\ (stack[w] = <<"w_sleep2">> /\ stack'[w] = <<>>) => pc'[w] = "w_sleep2"
         /\ (pc[w] = "w_sleep2" /\ pc'[w] # pc[w]) =>
               (pc'[w] = "pa_check" /\ loc'[w].line = loc[w].line)]_vars

\* C39: a start_scheduler call made straight after a stop_scheduler call
\* that returned success returns success, and when it returns the stop
\* signal is clear.
C39_RestartSucceeds ==
    [][(/\ MainCaller \in hist.restart
        /\ pc[MainCaller] \in {"ss_spawn", "ss_flag", "ss_join"}
        /\ pc'[MainCaller] = "idle")
       => (result'[MainCaller].value = "ok" /\ ~stop_scheduler_event')]_vars

\* C40: the handle start_radio creates gets the volume master volume
\* times radio volume on the 0..100 scale, clamped to 0..100 (the product
\* rounded down or up to an integer).
C40_InitialVolumeIsMasterTimesRadio ==
    [][\A t \in Threads :
         (pc[t] = "sr_new" /\ unreleased' = unreleased + 1) =>
            LET product == config.master * config.radio
            IN  player'.volume \in
                   {Max(0, Min(100, product \div 100)),
                    Max(0, Min(100, (product + 99) \div 100))}]_vars

====
